---- MODULE Spec2Model ----
(***************************************************************************)
(* The three archive scripts of SeaCrewManager:                            *)
(*   scripts/archive/fix_readme.py    (single-file publisher)              *)
(*   scripts/archive/query-balaji.py  (single-record lookup)               *)
(*   scripts/archive/upload_to_hf.py  (folder publisher)                   *)
(* Each behaviour is one invocation of one script: a standalone process    *)
(* that runs its statements in order and exits.  `script` says which one.  *)
(***************************************************************************)
EXTENDS Naturals, Sequences, FiniteSets, TLC

VARIABLES
  script,        \* which script this process runs
  pc,            \* the next statement of the script
  out,           \* what the process has printed, one entry per print call
  calls,         \* the remote calls issued so far, in order
  status,        \* the exit status, meaningful once pc = "exited"
  exc,           \* the exception raised, NoExc while none was raised
  crew_members,  \* query-balaji: the crew_members table of the data file
  documents,     \* query-balaji: the documents table of the data file
  cursor,        \* query-balaji: the rows the executed query selected
  result,        \* query-balaji: what fetchone returned
  lib,           \* upload_to_hf: huggingface_hub is importable
  installed,     \* upload_to_hf: the pip installation has been run
  argv,          \* upload_to_hf: sys.argv
  asked,         \* upload_to_hf: the values typed at the input() prompts
  c_REPO_ID,     \* upload_to_hf: the local REPO_ID
  c_TOKEN,       \* upload_to_hf: the local TOKEN
  probe_exc,     \* upload_to_hf: what the inner except caught (NoExc: nothing)
  cwd,           \* upload_to_hf: the files under the working directory
  payload        \* upload_to_hf: the files upload_folder transmits

vars == <<script, pc, out, calls, status, exc, crew_members, documents, cursor,
          result, lib, installed, argv, asked, c_REPO_ID, c_TOKEN, probe_exc,
          cwd, payload>>

b_vars == <<crew_members, documents, cursor, result>>
c_vars == <<lib, installed, argv, asked, c_REPO_ID, c_TOKEN, probe_exc, cwd,
            payload>>

NoExc == "<no exception>"
None == "<None>"
NoRow == <<>>
Unset == "<unbound>"
NoToken == "<no token argument>"

\* `calls` holds each remote call as the client library receives it: the
\* method (op) and its keyword arguments, token |-> NoToken when the call
\* passes no token.

\* An uncaught exception ends the process with a traceback and status 1.
Uncaught(e) ==
  /\ exc' = e
  /\ pc' = "exited"
  /\ status' = 1

Exit0 ==
  /\ pc' = "exited"
  /\ status' = 0

(***************************************************************************)
(* fix_readme.py                                                           *)
(***************************************************************************)
REPO_ID == "Sagar007Rana/sea-crew-manager"
TOKEN == "YOUR_HUGGINGFACE_TOKEN"

\* The faults the remote service or the transport can raise in a call.
HubFaults == {"HfHubHTTPError", "ConnectionError"}

path_or_fileobj == "README.md"

path_in_repo_nested == "docs/README.md"

path_in_repo == "README.md"

\* lines 9-11: api = HfApi(); print("Uploading ...")
A_Announce ==
  /\ script = "fix_readme" /\ pc = "a_start"
  /\ out' = Append(out, "Uploading README.md to fix configuration error...")
  /\ pc' = "a_upload"
  /\ UNCHANGED <<script, calls, status, exc, b_vars, c_vars>>

\* lines 13-19: api.upload_file(...); a fault is not caught anywhere.
A_UploadFile ==
  /\ script = "fix_readme" /\ pc = "a_upload"
  /\ calls' = Append(calls, [op |-> "upload_file",
                             path_or_fileobj |-> path_or_fileobj,
                             path_in_repo |-> path_in_repo,
                             repo_id |-> REPO_ID,
                             repo_type |-> "space",
                             token |-> TOKEN])
  /\ \E fault \in HubFaults \cup {NoExc} :
       IF fault = NoExc
         THEN pc' = "a_report" /\ UNCHANGED <<status, exc>>
         ELSE Uncaught(fault)
  /\ UNCHANGED <<script, out, b_vars, c_vars>>

\* lines 21-22: the two success messages (the first without its check-mark
\* emoji), then the script ends.
A_Report ==
  /\ script = "fix_readme" /\ pc = "a_report"
  /\ out' = out \o <<"README.md uploaded successfully!",
                     "Check your Space at: https://huggingface.co/spaces/" \o REPO_ID>>
  /\ Exit0
  /\ UNCHANGED <<script, calls, exc, b_vars, c_vars>>

(***************************************************************************)
(* query-balaji.py                                                         *)
(***************************************************************************)
\* The rows the data file may hold.  The schema is the one the query names.
CrewUniverse ==
  { [id |-> "c1", firstName |-> "VENKATARANGAN", lastName |-> "BALAJI",
     dateOfBirth |-> "1975-04-12"],
    [id |-> "c2", firstName |-> "RAVI", lastName |-> "KUMAR",
     dateOfBirth |-> None],
    [id |-> "c3", firstName |-> "VENKATARANGAN", lastName |-> "IYER",
     dateOfBirth |-> "1980-11-30"] }

DocUniverse ==
  { [id |-> "d1", crewMemberId |-> "c1", type |-> "passport",
     documentNumber |-> "Z1234567", expiryDate |-> "2030-01-01",
     issueDate |-> "2020-01-02", issuingAuthority |-> "CHENNAI"],
    [id |-> "d2", crewMemberId |-> "c1", type |-> "cdc",
     documentNumber |-> "MUM98765", expiryDate |-> "2028-06-30",
     issueDate |-> "2018-07-01", issuingAuthority |-> "MUMBAI"],
    [id |-> "d3", crewMemberId |-> "c2", type |-> "passport",
     documentNumber |-> "K7654321", expiryDate |-> "2027-03-15",
     issueDate |-> "2017-03-16", issuingAuthority |-> "DELHI"],
    [id |-> "d4", crewMemberId |-> "c3", type |-> "passport",
     documentNumber |-> "P5550001", expiryDate |-> "2031-09-09",
     issueDate |-> "2021-09-10", issuingAuthority |-> None] }

\* What sqlite3 can raise at connect, execute and fetchone.
ConnectFaults == {"unable to open database file"}
ExecuteFaults == {"no such table: crew_members", "no such column: d.crewMemberId"}
FetchFaults == {"database disk image is malformed"}

\* lines 10-24: the fixed join, as the set of rows it selects (the query has
\* no ORDER BY, so the rows have no order the script can rely on).
query(cm_table, d_table) ==
  { <<cm.firstName, cm.lastName, cm.dateOfBirth, d.id, d.documentNumber,
      d.expiryDate, d.issueDate, d.issuingAuthority>> :
      <<cm, d>> \in { x \in cm_table \X d_table :
                        /\ x[1].id = x[2].crewMemberId
                        /\ x[1].firstName = "VENKATARANGAN"
                        /\ x[2].type = "passport" } }

\* An f-string's {value}: str(value), and str(None) is "None".
Str(v) == IF v = None THEN "None" ELSE v

RowLinesSwapped(r) ==
  << [label |-> "Name", fields |-> <<r[1], r[2]>>],
     [label |-> "Date of Birth", fields |-> <<r[3]>>],
     [label |-> "---", fields |-> <<>>],
     [label |-> "Document ID", fields |-> <<r[4]>>],
     [label |-> "Passport Number", fields |-> <<r[5]>>],
     [label |-> "Expiry Date", fields |-> <<r[7]>>],
     [label |-> "Issue Date", fields |-> <<r[6]>>],
     [label |-> "Issuing Authority", fields |-> <<r[8]>>] >>

\* lines 30-37: the lines printed for a row, each a label and the columns
\* (0-based in the source, 1-based here) shown after it.
RowLines(r) ==
  << [label |-> "Name", fields |-> <<r[1], r[2]>>],
     [label |-> "Date of Birth", fields |-> <<r[3]>>],
     [label |-> "---", fields |-> <<>>],
     [label |-> "Document ID", fields |-> <<r[4]>>],
     [label |-> "Passport Number", fields |-> <<r[5]>>],
     [label |-> "Expiry Date", fields |-> <<r[6]>>],
     [label |-> "Issue Date", fields |-> <<r[7]>>],
     [label |-> "Issuing Authority", fields |-> <<r[8]>>] >>

\* The text of one such line: "label: field field", or the bare separator.
Render(line) ==
  CASE Len(line.fields) = 0 -> line.label
    [] Len(line.fields) = 1 -> line.label \o ": " \o Str(line.fields[1])
    [] OTHER -> line.label \o ": " \o Str(line.fields[1]) \o " "
                           \o Str(line.fields[2])

ReportSilent(r) ==
  IF r # NoRow
    THEN [i \in 1..Len(RowLines(r)) |-> Render(RowLines(r)[i])]
    ELSE <<>>

\* lines 29-39: what is printed for the fetched result (NoRow is fetchone's
\* None: the only falsy value it returns).
Report(r) ==
  IF r # NoRow
    THEN [i \in 1..Len(RowLines(r)) |-> Render(RowLines(r)[i])]
    ELSE <<"No passport found for VENKATARANGAN BALAJI">>

\* line 45: sys.exit(1)
ErrorExit == 1

\* A statement inside the try block raises: control goes to line 43.
Raise(e) ==
  /\ exc' = e
  /\ pc' = "b_except"

\* line 5: sqlite3.connect opens the data file, whatever it holds.
B_Connect ==
  /\ script = "query-balaji" /\ pc = "b_connect"
  /\ \E fault \in ConnectFaults \cup {NoExc} :
       IF fault = NoExc
         THEN /\ crew_members' \in SUBSET CrewUniverse
              /\ documents' \in SUBSET DocUniverse
              /\ pc' = "b_header"
              /\ UNCHANGED exc
         ELSE Raise(fault) /\ UNCHANGED <<crew_members, documents>>
  /\ UNCHANGED <<script, out, calls, status, cursor, result, c_vars>>

\* lines 6-8: the cursor, then the header line.
B_Header ==
  /\ script = "query-balaji" /\ pc = "b_header"
  /\ out' = Append(out, "=== VENKATARANGAN BALAJI Passport Data ===\n")
  /\ pc' = "b_execute"
  /\ UNCHANGED <<script, calls, status, exc, b_vars, c_vars>>

\* line 26: cursor.execute(query)
B_Execute ==
  /\ script = "query-balaji" /\ pc = "b_execute"
  /\ \E fault \in ExecuteFaults \cup {NoExc} :
       IF fault = NoExc
         THEN /\ cursor' = query(crew_members, documents)
              /\ pc' = "b_fetch"
              /\ UNCHANGED exc
         ELSE Raise(fault) /\ UNCHANGED cursor
  /\ UNCHANGED <<script, out, calls, status, crew_members, documents, result,
                 c_vars>>

\* line 27: cursor.fetchone(): one of the selected rows, None if there is none.
B_FetchOne ==
  /\ script = "query-balaji" /\ pc = "b_fetch"
  /\ \E fault \in FetchFaults \cup {NoExc} :
       IF fault = NoExc
         THEN /\ result' \in (IF cursor = {} THEN {NoRow} ELSE cursor)
              /\ pc' = "b_print"
              /\ UNCHANGED exc
         ELSE Raise(fault) /\ UNCHANGED result
  /\ UNCHANGED <<script, out, calls, status, crew_members, documents, cursor,
                 c_vars>>

\* lines 29-39: the row's lines, or the "not found" message.
B_Print ==
  /\ script = "query-balaji" /\ pc = "b_print"
  /\ out' = out \o Report(result)
  /\ pc' = "b_close"
  /\ UNCHANGED <<script, calls, status, exc, b_vars, c_vars>>

\* line 41: conn.close(); the script ends normally.
B_Close ==
  /\ script = "query-balaji" /\ pc = "b_close"
  /\ Exit0
  /\ UNCHANGED <<script, out, calls, exc, b_vars, c_vars>>

B_ExceptNoExit ==
  /\ script = "query-balaji" /\ pc = "b_except"
  /\ out' = Append(out, "Error: " \o exc)
  /\ Exit0
  /\ UNCHANGED <<script, calls, exc, b_vars, c_vars>>

\* lines 43-45: except Exception as e: print(f"Error: {e}"); sys.exit(1)
B_Except ==
  /\ script = "query-balaji" /\ pc = "b_except"
  /\ out' = Append(out, "Error: " \o exc)
  /\ pc' = "exited"
  /\ status' = ErrorExit
  /\ UNCHANGED <<script, calls, exc, b_vars, c_vars>>

(***************************************************************************)
(* upload_to_hf.py                                                         *)
(***************************************************************************)
\* Bounds: how many positional arguments a command line carries, and how many
\* files the working directory holds.
MaxArgs == 3
MaxFiles == 3

\* What a user may pass as first and second argument, and type at the two
\* prompts.  Eof is input() raising EOFError on a closed stdin.
RepoArgs == {"", "cli/space"}
TokenArgs == {"", "hf_cli"}
RepoTyped == {"", "tty/space"}
TokenTyped == {"", "hf_tty"}
Eof == "<EOF>"

ArgValues(i) == IF i = 1 THEN RepoArgs ELSE IF i = 2 THEN TokenArgs ELSE {"extra"}

CommandLines ==
  UNION { { <<"upload_to_hf.py">> \o a :
              a \in { f \in [1..n -> RepoArgs \cup TokenArgs \cup {"extra"}] :
                        \A i \in 1..n : f[i] \in ArgValues(i) } } :
          n \in 0..MaxArgs }

\* A relative path, and a pattern, as the sequence of its pieces: names, "/",
\* suffixes, and in a pattern the wildcard "*".
Files ==
  { <<"app.py">>,
    <<"node_modules", "/", "pkg", "/", "index.js">>,
    <<".env">>,
    <<"dist", "/", "bundle.js">>,
    <<".git", "/", "config">>,
    <<"uploads", "/", "photo.png">>,
    <<"baileys_auth", "/", "creds.json">>,
    <<"backup", ".tar.gz">>,
    <<"release", ".apk">>,
    <<"server", "/", ".env">>,
    <<"server", "/", "dist", "/", "main.js">>,
    <<"server", "/", "logs", ".tar.gz">> }

Directories == { d \in SUBSET Files : Cardinality(d) <= MaxFiles }

ignore_patterns_without_env ==
  << <<"node_modules", "/", "*">>,
     <<"dist", "/", "*">>,
     <<".git", "/", "*">>,
     <<"uploads", "/", "*">>,
     <<"baileys_auth", "/", "*">>,
     <<"*", ".tar.gz">>,
     <<"*", ".apk">>,
     <<"node_modules">>,
     <<"dist">>,
     <<".git">> >>

\* lines 41-53: the ignore_patterns list.
ignore_patterns ==
  << <<"node_modules", "/", "*">>,
     <<"dist", "/", "*">>,
     <<".git", "/", "*">>,
     <<".env">>,
     <<"uploads", "/", "*">>,
     <<"baileys_auth", "/", "*">>,
     <<"*", ".tar.gz">>,
     <<"*", ".apk">>,
     <<"node_modules">>,
     <<"dist">>,
     <<".git">> >>

\* Shell-style matching of a whole path against a pattern: "*" stands for any
\* run of pieces, "/" included; every other piece stands for itself.
RECURSIVE fnmatch(_, _)
fnmatch(name, pat) ==
  IF pat = <<>> THEN name = <<>>
  ELSE IF Head(pat) = "*"
    THEN \/ fnmatch(name, Tail(pat))
         \/ name # <<>> /\ fnmatch(Tail(name), pat)
    ELSE /\ name # <<>>
         /\ Head(name) = Head(pat)
         /\ fnmatch(Tail(name), Tail(pat))

\* What upload_folder transmits of the files under folder_path: every file
\* but those some ignore pattern matches.
filter_repo_objects(files, patterns) ==
  { f \in files : ~ \E i \in 1..Len(patterns) : fnmatch(f, patterns[i]) }

FromCommandLineThree(args) == Len(args) > 3

\* line 7: the command line carries both values.
FromCommandLine(args) == Len(args) > 2

MissingBoth(repo_id, token) == repo_id = "" /\ token = ""

\* line 14: not REPO_ID or not TOKEN
Missing(repo_id, token) == repo_id = "" \/ token = ""

AfterProbeNeverCreate(fault) == "c_upload"

\* lines 24-26: where the probe's outcome leads.
AfterProbe(fault) == IF fault = NoExc THEN "c_upload" ELSE "c_create"

\* lines 1-3: the imports at the top of the module; a missing
\* huggingface_hub raises ModuleNotFoundError there, outside any try.
C_Import ==
  /\ script = "upload_to_hf" /\ pc = "c_import"
  /\ IF lib
       THEN pc' = "c_main" /\ UNCHANGED <<status, exc>>
       ELSE Uncaught("No module named 'huggingface_hub'")
  /\ UNCHANGED <<script, out, calls, b_vars, c_vars>>

\* lines 60-66: the import check of the __main__ block, and the pip
\* installation (which may or may not succeed) when the import fails.
C_Main ==
  /\ script = "upload_to_hf" /\ pc = "c_main"
  /\ \E pip_ok \in BOOLEAN :
       IF lib
         THEN UNCHANGED <<out, lib, installed>>
         ELSE /\ out' = Append(out, "Installing required library: huggingface-hub...")
              /\ installed' = TRUE
              /\ lib' = pip_ok
  /\ pc' = "c_config"
  /\ UNCHANGED <<script, calls, status, exc, b_vars, argv, asked, c_REPO_ID,
                 c_TOKEN, probe_exc, cwd, payload>>

\* lines 7-12: both values from the command line, or both from the prompts.
\* input() writes its prompt to standard output and raises EOFError, which
\* nothing catches, when standard input is closed.
C_Config ==
  /\ script = "upload_to_hf" /\ pc = "c_config"
  /\ IF FromCommandLine(argv)
       THEN /\ c_REPO_ID' = argv[2]
            /\ c_TOKEN' = argv[3]
            /\ pc' = "c_validate"
            /\ UNCHANGED <<out, asked, status, exc>>
       ELSE \E r \in RepoTyped \cup {Eof}, t \in TokenTyped \cup {Eof} :
              LET prompt1 == "Enter your Hugging Face Space ID (e.g., username/space-name): "
                  prompt2 == "Enter your Hugging Face Write Token: "
              IN  IF r = Eof
                    THEN /\ out' = Append(out, prompt1)
                         /\ Uncaught("EOFError")
                         /\ UNCHANGED <<asked, c_REPO_ID, c_TOKEN>>
                  ELSE IF t = Eof
                    THEN /\ out' = out \o <<prompt1, prompt2>>
                         /\ asked' = <<r>>
                         /\ c_REPO_ID' = r
                         /\ Uncaught("EOFError")
                         /\ UNCHANGED c_TOKEN
                  ELSE   /\ out' = out \o <<prompt1, prompt2>>
                         /\ asked' = <<r, t>>
                         /\ c_REPO_ID' = r
                         /\ c_TOKEN' = t
                         /\ pc' = "c_validate"
                         /\ UNCHANGED <<status, exc>>
  /\ UNCHANGED <<script, calls, b_vars, lib, installed, argv, probe_exc, cwd,
                 payload>>

\* lines 14-20: the validation; then api = HfApi() and the starting message.
C_Validate ==
  /\ script = "upload_to_hf" /\ pc = "c_validate"
  /\ IF Missing(c_REPO_ID, c_TOKEN)
       THEN /\ out' = Append(out, "Error: Repo ID and Token are required.")
            /\ Exit0
       ELSE /\ out' = Append(out, "Starting upload to " \o c_REPO_ID \o "...")
            /\ pc' = "c_probe"
            /\ UNCHANGED status
  /\ UNCHANGED <<script, calls, exc, b_vars, c_vars>>

\* lines 24-27: the existence probe; whatever it raises is taken as "absent".
C_RepoInfo ==
  /\ script = "upload_to_hf" /\ pc = "c_probe"
  /\ calls' = Append(calls, [op |-> "repo_info",
                             repo_id |-> c_REPO_ID,
                             repo_type |-> "space",
                             token |-> NoToken])
  /\ \E fault \in HubFaults \cup {NoExc} :
       /\ probe_exc' = fault
       /\ pc' = AfterProbe(fault)
       /\ out' = IF fault = NoExc THEN out
                 ELSE Append(out, "Space " \o c_REPO_ID \o " not found. Creating it now...")
  /\ UNCHANGED <<script, status, exc, b_vars, lib, installed, argv, asked,
                 c_REPO_ID, c_TOKEN, cwd, payload>>

\* lines 28-34: create_repo, inside the outer try only.
C_CreateRepo ==
  /\ script = "upload_to_hf" /\ pc = "c_create"
  /\ calls' = Append(calls, [op |-> "create_repo",
                             repo_id |-> c_REPO_ID,
                             repo_type |-> "space",
                             space_sdk |-> "docker",
                             token |-> c_TOKEN])
  /\ \E fault \in HubFaults \cup {NoExc} :
       IF fault = NoExc
         THEN /\ out' = Append(out, "Space created successfully!")
              /\ pc' = "c_upload"
              /\ UNCHANGED exc
         ELSE /\ exc' = fault
              /\ pc' = "c_except"
              /\ UNCHANGED out
  /\ UNCHANGED <<script, status, b_vars, c_vars>>

\* lines 36-54: upload_folder of "." with the ignore patterns.
C_UploadFolder ==
  /\ script = "upload_to_hf" /\ pc = "c_upload"
  /\ calls' = Append(calls, [op |-> "upload_folder",
                             folder_path |-> ".",
                             repo_id |-> c_REPO_ID,
                             repo_type |-> "space",
                             token |-> c_TOKEN,
                             ignore_patterns |-> ignore_patterns])
  /\ \E dir \in Directories :
       /\ cwd' = dir
       /\ payload' = filter_repo_objects(dir, ignore_patterns)
  /\ \E fault \in HubFaults \cup {NoExc} :
       IF fault = NoExc
         THEN pc' = "c_report" /\ UNCHANGED exc
         ELSE exc' = fault /\ pc' = "c_except"
  /\ UNCHANGED <<script, out, status, b_vars, lib, installed, argv, asked,
                 c_REPO_ID, c_TOKEN, probe_exc>>

\* lines 55-56: the completion messages; the function returns.
C_Report ==
  /\ script = "upload_to_hf" /\ pc = "c_report"
  /\ out' = out \o <<"\nUpload Complete!",
                     "Your app will be live soon at: https://huggingface.co/spaces/"
                       \o c_REPO_ID>>
  /\ Exit0
  /\ UNCHANGED <<script, calls, exc, b_vars, c_vars>>

\* lines 57-58: except Exception as e: print the error; the function returns
\* and the script ends normally.
C_Except ==
  /\ script = "upload_to_hf" /\ pc = "c_except"
  /\ out' = Append(out, "\nError: " \o exc)
  /\ Exit0
  /\ UNCHANGED <<script, calls, exc, b_vars, c_vars>>

(***************************************************************************)
(* One invocation of one script.                                           *)
(***************************************************************************)
Scripts == {"fix_readme", "query-balaji", "upload_to_hf"}

Entry(s) ==
  CASE s = "fix_readme" -> "a_start"
    [] s = "query-balaji" -> "b_connect"
    [] s = "upload_to_hf" -> "c_import"

Init ==
  /\ script \in Scripts
  /\ pc = Entry(script)
  /\ out = <<>>
  /\ calls = <<>>
  /\ status = 0
  /\ exc = NoExc
  /\ crew_members = {}
  /\ documents = {}
  /\ cursor = {}
  /\ result = NoRow
  /\ lib \in (IF script = "upload_to_hf" THEN BOOLEAN ELSE {TRUE})
  /\ installed = FALSE
  /\ argv \in (IF script = "upload_to_hf" THEN CommandLines ELSE {<<script>>})
  /\ asked = <<>>
  /\ c_REPO_ID = Unset
  /\ c_TOKEN = Unset
  /\ probe_exc = Unset
  /\ cwd = {}
  /\ payload = {}

Next ==
  \/ A_Announce \/ A_UploadFile \/ A_Report
  \/ B_Connect \/ B_Header \/ B_Execute \/ B_FetchOne \/ B_Print \/ B_Close
  \/ B_Except
  \/ C_Import \/ C_Main \/ C_Config \/ C_Validate \/ C_RepoInfo
  \/ C_CreateRepo \/ C_UploadFolder \/ C_Report \/ C_Except

Spec == Init /\ [][Next]_vars

(***************************************************************************)
(* Properties                                                              *)
(***************************************************************************)
Ops == [i \in 1..Len(calls) |-> calls[i].op]

Issued(op) == \E i \in 1..Len(calls) : calls[i].op = op

Last(s) == s[Len(s)]

RequiredMessage == "Error: Repo ID and Token are required."
HeaderLine == "=== VENKATARANGAN BALAJI Passport Data ===\n"
NotFoundMessage == "No passport found for VENKATARANGAN BALAJI"
SuccessMessage == "README.md uploaded successfully!"

\* C1: in upload_to_hf, whenever the destination identifier or the credential
\* obtained (from the command line or from the prompts) is the empty string,
\* no remote call is ever issued (no repo_info, create_repo or upload_folder)
\* and the run ends, with status 0, on the "required" message.
C1_EmptyInputNoRemoteCall ==
  ( /\ script = "upload_to_hf"
    /\ c_REPO_ID # Unset /\ c_TOKEN # Unset
    /\ (c_REPO_ID = "" \/ c_TOKEN = "") )
  => /\ calls = <<>>
     /\ pc \in {"c_validate", "exited"}
     /\ pc = "exited" => /\ Last(out) = RequiredMessage
                         /\ status = 0
                         /\ exc = NoExc

C1_Witness ==
  /\ script = "upload_to_hf" /\ pc = "exited"
  /\ c_REPO_ID = "cli/space" /\ c_TOKEN = ""
  /\ Last(out) = RequiredMessage
  /\ calls = <<>>

\* C2: in upload_to_hf with both inputs non-empty, a failed probe is followed
\* by exactly one create_repo call, which comes before the upload_folder call;
\* after a successful probe no create_repo call is issued and upload_folder
\* directly follows repo_info.
C2_CreateOnlyAfterFailedProbe ==
  script = "upload_to_hf" =>
    /\ probe_exc = Unset => calls = <<>>
    /\ probe_exc \in HubFaults =>
         /\ Ops \in { <<"repo_info">>,
                      <<"repo_info", "create_repo">>,
                      <<"repo_info", "create_repo", "upload_folder">> }
         /\ pc # "c_create" => Len(Ops) >= 2
    /\ probe_exc = NoExc =>
         /\ Ops \in { <<"repo_info">>, <<"repo_info", "upload_folder">> }
         /\ pc # "c_upload" => Ops = <<"repo_info", "upload_folder">>

C2_Witness ==
  /\ script = "upload_to_hf" /\ pc = "exited"
  /\ probe_exc \in HubFaults
  /\ Ops = <<"repo_info", "create_repo", "upload_folder">>

\* C3: in upload_to_hf, of the files under the working directory exactly those
\* that match none of the fixed exclusion patterns are in the upload payload;
\* a directory holding app.py, node_modules/pkg/index.js and .env uploads
\* app.py alone.
C3_Patterns ==
  { <<"node_modules", "/", "*">>, <<"dist", "/", "*">>, <<".git", "/", "*">>,
    <<".env">>, <<"uploads", "/", "*">>, <<"baileys_auth", "/", "*">>,
    <<"*", ".tar.gz">>, <<"*", ".apk">>, <<"node_modules">>, <<"dist">>,
    <<".git">> }

C3_Example ==
  { <<"app.py">>, <<"node_modules", "/", "pkg", "/", "index.js">>, <<".env">> }

C3_PayloadExcludesPatterns ==
  (script = "upload_to_hf" /\ Issued("upload_folder")) =>
    /\ payload \subseteq cwd
    /\ \A f \in cwd :
         f \in payload <=> ~ \E p \in C3_Patterns : fnmatch(f, p)
    /\ \A i \in 1..Len(calls) :
         calls[i].op = "upload_folder" => calls[i].folder_path = "."
    /\ cwd = C3_Example => payload = { <<"app.py">> }

C3_Witness ==
  /\ script = "upload_to_hf" /\ Issued("upload_folder")
  /\ cwd = C3_Example
  /\ payload = { <<"app.py">> }

\* C4 (as stated): in query-balaji, when the query selects no row, the whole
\* output is the "not found" message and the exit status is 0.
C4_OutputIsOnlyNotFound ==
  ( /\ script = "query-balaji" /\ pc = "exited"
    /\ exc = NoExc /\ cursor = {} )
  => /\ out = <<NotFoundMessage>>
     /\ status = 0

\* C4 (amended): in query-balaji, when the query selects no row, the whole
\* output is the header line followed by the "not found" message, and the
\* exit status is 0.
C4_HeaderThenNotFound ==
  ( /\ script = "query-balaji" /\ pc = "exited"
    /\ exc = NoExc /\ cursor = {} )
  => /\ out = <<HeaderLine, NotFoundMessage>>
     /\ status = 0

C4_Witness ==
  /\ script = "query-balaji" /\ pc = "exited"
  /\ exc = NoExc /\ cursor = {}
  /\ crew_members # {} /\ documents # {}
  /\ Last(out) = NotFoundMessage

\* C5 (as stated): in query-balaji, when a row was fetched, each of the eight
\* selected columns is printed on a line of its own, under its own label.
C5_Labels ==
  { "Name", "First Name", "Last Name", "Date of Birth", "Document ID",
    "Passport Number", "Expiry Date", "Issue Date", "Issuing Authority" }

C5_EightOwnLabels ==
  ( /\ script = "query-balaji" /\ pc = "exited"
    /\ exc = NoExc /\ result # NoRow )
  => \A i \in 1..8 :
       \E k \in 1..Len(out), l \in C5_Labels :
         out[k] = l \o ": " \o Str(result[i])

\* C5 (amended): in query-balaji, when a row was fetched, the output after the
\* header shows the eight selected columns in the order of the SELECT on seven
\* labelled lines (first and last name share the label Name) with a "---"
\* line after the date of birth; however many rows match, one row, the one
\* fetchone returned, is printed.
C5_EightFieldsSevenLabels ==
  ( /\ script = "query-balaji" /\ pc \in {"b_close", "exited"}
    /\ exc = NoExc /\ result # NoRow )
  => /\ result \in query(crew_members, documents)
     /\ out = << HeaderLine,
                 "Name: " \o Str(result[1]) \o " " \o Str(result[2]),
                 "Date of Birth: " \o Str(result[3]),
                 "---",
                 "Document ID: " \o Str(result[4]),
                 "Passport Number: " \o Str(result[5]),
                 "Expiry Date: " \o Str(result[6]),
                 "Issue Date: " \o Str(result[7]),
                 "Issuing Authority: " \o Str(result[8]) >>

C5_Witness ==
  /\ script = "query-balaji" /\ pc = "exited"
  /\ exc = NoExc /\ result # NoRow
  /\ Cardinality(cursor) >= 2
  /\ Len(out) = 9

\* C6: in query-balaji, a fault raised at connect, execute or fetchone reaches
\* the single handler, which prints "Error: <fault>" and exits with a non-zero
\* status; the exit status is 0 exactly when no fault was raised.
C6_FaultsCaughtExitNonZero ==
  script = "query-balaji" =>
    /\ exc # NoExc => pc \in {"b_except", "exited"}
    /\ pc = "exited" =>
         /\ status = 0 <=> exc = NoExc
         /\ exc # NoExc => /\ status # 0
                           /\ Last(out) = "Error: " \o exc
         /\ exc = NoExc => Last(out) = Last(Report(result))

C6_Witness ==
  /\ script = "query-balaji" /\ pc = "exited"
  /\ exc \in ExecuteFaults
  /\ status = 1
  /\ out = <<HeaderLine, "Error: " \o exc>>

\* C7: in fix_readme, a run issues one upload_file call at most and, once it
\* has ended, exactly one; the call's path_in_repo is the name of the local
\* file, README.md; the success message is printed only after the call
\* returned without fault; a fault is not caught, ends the run with a
\* non-zero status and leaves the success message unprinted.
C7_OneUploadSamePath ==
  script = "fix_readme" =>
    /\ Len(calls) <= 1
    /\ pc \in {"a_report", "exited"} => Len(calls) = 1
    /\ \A i \in 1..Len(calls) :
         /\ calls[i].op = "upload_file"
         /\ calls[i].path_in_repo = calls[i].path_or_fileobj
         /\ calls[i].path_in_repo = "README.md"
    /\ (\E k \in 1..Len(out) : out[k] = SuccessMessage)
         => Len(calls) = 1 /\ exc = NoExc
    /\ exc # NoExc =>
         /\ pc = "exited" /\ status # 0
         /\ \A k \in 1..Len(out) : out[k] # SuccessMessage

C7_Witness ==
  /\ script = "fix_readme" /\ pc = "exited"
  /\ status = 0
  /\ Len(calls) = 1
  /\ out[2] = SuccessMessage

\* C8 (as stated): in upload_to_hf, a destination identifier supplied on the
\* command line is the one used, in the script and in its remote calls,
\* whatever the number of arguments; it is never replaced by a typed value.
C8_SuppliedArgumentIsUsed ==
  (script = "upload_to_hf" /\ Len(argv) >= 2) =>
    /\ c_REPO_ID \in {Unset, argv[2]}
    /\ \A i \in 1..Len(calls) : calls[i].repo_id = argv[2]

\* C8 (amended): in upload_to_hf, with two or more positional arguments the
\* two values are the first two arguments and nothing is asked; with fewer
\* (one included) both values are the ones typed at the prompts; the
\* destination so obtained is the one every remote call names, and the
\* credential so obtained is the one passed by every call that passes a token.
C8_BothFromArgvOrBothTyped ==
  script = "upload_to_hf" =>
    /\ Len(argv) > 2 =>
         /\ asked = <<>>
         /\ c_REPO_ID \in {Unset, argv[2]}
         /\ c_TOKEN \in {Unset, argv[3]}
    /\ Len(argv) <= 2 =>
         /\ c_REPO_ID # Unset => Len(asked) >= 1 /\ c_REPO_ID = asked[1]
         /\ c_TOKEN # Unset => Len(asked) = 2 /\ c_TOKEN = asked[2]
    /\ pc \in {"c_validate", "c_probe", "c_create", "c_upload", "c_report",
               "c_except"} => c_REPO_ID # Unset /\ c_TOKEN # Unset
    /\ \A i \in 1..Len(calls) :
         /\ calls[i].repo_id = c_REPO_ID
         /\ calls[i].token \in {c_TOKEN, NoToken}

C8_Witness ==
  /\ script = "upload_to_hf" /\ pc = "exited"
  /\ Len(argv) = 2 /\ argv[2] = "cli/space"
  /\ c_REPO_ID = "tty/space"
  /\ Issued("upload_folder")

\* C9: every remote call carries the credential the script was given: TOKEN in
\* fix_readme, the user-supplied token in upload_to_hf (repo_info, create_repo
\* and upload_folder alike).
C9_EveryCallCarriesCredential ==
  \A i \in 1..Len(calls) :
    calls[i].token = (IF script = "fix_readme" THEN TOKEN ELSE c_TOKEN)

\* C10: a run of upload_to_hf that starts without an importable
\* huggingface_hub runs the installation before it ends (the library only
\* becomes importable through the installation, so a run that ended without
\* the library and without the installation never reached it).
C10_InstallWhenLibraryMissing ==
  (script = "upload_to_hf" /\ pc = "exited" /\ ~lib) => installed

====
